---- MODULE Spec2Model ----
(***************************************************************************)
(* Model of the ring-arena crate (src/src/lib.rs): a two-sided ring        *)
(* allocator over one fixed buffer, with handles whose drop sends a        *)
(* reclamation signal over an unbounded MPSC channel that the arena        *)
(* drains at the start of every allocate().                                *)
(*                                                                         *)
(* The arena thread is the only caller of allocate(); handles may be       *)
(* dropped by any thread.  The only points where the arena thread and      *)
(* the dropping threads interact are the channel operations, so            *)
(* allocate() is split at its try_recv calls: one `deallocate` step per    *)
(* received signal, and one `allocate_place` step for the try_recv that    *)
(* finds the channel empty together with the placement that follows it.    *)
(*                                                                         *)
(* A handle is a value without identity: the handles that exist are kept   *)
(* as a bag of their contents, and a dropped handle is gone.               *)
(*                                                                         *)
(* A panic of allocate() ends that call only: the arena keeps the state    *)
(* the panic left it in and can be called again by an owner that caught    *)
(* the panic.  The element type T enters through size_of::<T>(), which     *)
(* decides whether offset_from_unsigned in the drain panics.               *)
(***************************************************************************)
EXTENDS Naturals, Integers, Sequences, FiniteSets, Bags

\* ---- bounds of the model ------------------------------------------------
\* The statements of test::test are always admitted; every other run stays
\* within these bounds.
MaxCapacity == 3      \* capacities given to RingArena::new are 0..MaxCapacity
MaxLength == 3        \* lengths given to allocate are 0..MaxLength
MaxLive == 3          \* allocate is called while fewer handles than this exist
MaxListed == MaxLive + 1   \* ... and while fewer regions than this are listed

\* size_of::<T>() of the element types instantiated: () and u32
SizesOfT == {0, 4}

\* test::test runs on RingArena::<u32>::new(4)
TestCapacity == 4
TestSizeOfT == 4

VARIABLES
    size_of_T,     \* size_of::<T>() of the arena's element type T
    storage_len,   \* self.storage.len(), the capacity (slots are uninitialised)
    allocations,   \* self.allocations: VecDeque<ArenaAllocation>, front first
    receiver,      \* the flume channel: signals sent and not yet received
    handles,       \* bag of the Handle values that exist (issued, not dropped)
    pc,            \* position of the arena thread: between calls, or in allocate()
    length,        \* argument of the allocate() call in progress (0 outside a call)
    connected,     \* TRUE while the arena (and so its Receiver) exists
    panic,         \* the panic that ended the arena thread's last call
                   \* ("none" when it returned, and while a call is running)
    test_pc,       \* statements of test::test performed so far (0: another run)
    test_vars      \* the handles a, b, c, d the test has been returned so far

vars == <<size_of_T, storage_len, allocations, receiver, handles, pc, length,
          connected, panic, test_pc, test_vars>>

\* ---- ArenaAllocation ----------------------------------------------------
ArenaAllocation(start, len) == [start |-> start, len |-> len]

end(a) == a.start + a.len

\* ---- Handle ---------------------------------------------------------------
\* HandleInner::Arena { ptr, sender }: ptr is the slice (start, len) of storage
HandleArena_len1(start, len) == [boxed |-> FALSE, start |-> start, len |-> len + 1]
HandleArena(start, len) == [boxed |-> FALSE, start |-> start, len |-> len]

\* HandleInner::Boxed(Box::new_uninit_slice(length)): memory of its own
HandleBoxed(len) == [boxed |-> TRUE, start |-> 0, len |-> len]

is_boxed(h) == h.boxed

\* as_slice().len()
as_slice_len(h) == h.len

\* ---- RingArena helpers --------------------------------------------------
left_index_empty0 == IF allocations = <<>> THEN 0 ELSE Head(allocations).start
left_index == IF allocations = <<>> THEN storage_len ELSE Head(allocations).start

available_left == left_index

right_index_start == IF allocations = <<>> THEN storage_len
                     ELSE allocations[Len(allocations)].start
right_index == IF allocations = <<>> THEN storage_len
               ELSE end(allocations[Len(allocations)])

\* usize subtraction; right_index never exceeds storage_len
available_right == storage_len - right_index

\* VecDeque::push_back and VecDeque::push_front
push_back(a) == Append(allocations, a)

push_front_back(a) == Append(allocations, a)
push_front(a) == <<a>> \o allocations

\* VecDeque::remove(index), 1-based
remove(s, index) == [k \in 1..(Len(s) - 1) |-> IF k < index THEN s[k] ELSE s[k + 1]]

\* VecDeque::binary_search_by_key(&start, |k| k.start) on a list sorted by
\* start: Ok(i) for an i with that key, any of them when there are several
\* (which one is unspecified by std); Err when there is none.
binary_search_by_key(start) == {i \in 1..Len(allocations) : allocations[i].start = start}

\* ptr.offset_from_unsigned(origin) panics for a zero-sized pointee; for any
\* other T it is the index of the slice's first slot in storage
offset_from_unsigned_panics == size_of_T = 0

offset_from_unsigned(alloc) == alloc.start

\* &mut self.storage[start]: the bounds check of the index expression
index_in_bounds(start) == start < storage_len

\* RingArena::drop: the condition of the panic
drop_panics_never == FALSE
drop_panics_many == Len(allocations) > 1
drop_panics == allocations # <<>>

\* ---- test::test -----------------------------------------------------------
\* the statements of the test after RingArena::new(4), in program order:
\* a, b, c, d are the 1st to 4th handle returned; drop((a, b)) drops a then b;
\* at the end of the scope d, c and the arena are dropped in that order.
TestScript == << [op |-> "allocate", arg |-> 1],
                 [op |-> "allocate", arg |-> 3],
                 [op |-> "allocate", arg |-> 2],
                 [op |-> "drop", arg |-> 1],
                 [op |-> "drop", arg |-> 2],
                 [op |-> "allocate", arg |-> 4],
                 [op |-> "drop", arg |-> 4],
                 [op |-> "drop", arg |-> 3],
                 [op |-> "arena_drop", arg |-> 0] >>

\* the lengths the test passes to allocate
TestLengths == {TestScript[k].arg : k \in {j \in 1..Len(TestScript) : TestScript[j].op = "allocate"}}

\* the run stays the test's run only while each operation is the next
\* statement of the test's single thread, begun after the previous one returned
test_step(op, arg) ==
    IF test_pc >= 1 /\ test_pc <= Len(TestScript) /\ pc = "idle"
       /\ TestScript[test_pc] = [op |-> op, arg |-> arg]
    THEN test_pc + 1 ELSE 0

\* dropping the handle h is the next statement when h is the variable it names
test_step_drop(h) ==
    IF \E k \in 1..Len(test_vars) : test_vars[k] = h /\ test_step("drop", k) # 0
    THEN test_pc + 1 ELSE 0

\* ---- RingArena::new -------------------------------------------------------
new(size, capacity) ==
    /\ size_of_T = size
    /\ storage_len = capacity
    /\ allocations = <<>>
    /\ receiver = <<>>
    /\ handles = EmptyBag
    /\ pc = "idle"
    /\ length = 0
    /\ connected = TRUE
    /\ panic = "none"
    /\ test_pc = IF size = TestSizeOfT /\ capacity = TestCapacity THEN 1 ELSE 0
    /\ test_vars = <<>>

Init == \/ \E size \in SizesOfT : \E capacity \in 0..MaxCapacity : new(size, capacity)
        \/ new(TestSizeOfT, TestCapacity)

\* ---- RingArena::allocate ------------------------------------------------
\* the call: allocate(n) begins with self.deallocate().  A call that ended
\* in a panic leaves the arena as the panic found it, and the owner that
\* caught the panic may call again.
allocate_enter(n) ==
    /\ connected /\ pc = "idle"
    /\ \/ test_step("allocate", n) # 0
       \/ /\ storage_len <= MaxCapacity /\ n <= MaxLength
          /\ BagCardinality(handles) < MaxLive /\ Len(allocations) < MaxListed
    /\ pc' = "deallocate"
    /\ length' = n
    /\ panic' = "none"
    /\ test_pc' = test_step("allocate", n)
    /\ test_vars' = IF test_pc' = 0 THEN <<>> ELSE test_vars
    /\ UNCHANGED <<size_of_T, storage_len, allocations, receiver, handles, connected>>

\* the call unwinds with the panic named: the arena thread is out of the call
unwind(name) == pc' = "idle" /\ panic' = name /\ length' = 0

\* one iteration of the while-let loop: try_recv returned Ok(alloc)
deallocate ==
    /\ pc = "deallocate" /\ receiver # <<>>
    /\ LET alloc == Head(receiver)
           found == binary_search_by_key(offset_from_unsigned(alloc))
       IN /\ receiver' = Tail(receiver)
          /\ IF offset_from_unsigned_panics
             THEN /\ unwind("offset_from_unsigned")
                  /\ UNCHANGED allocations
             ELSE IF found = {}
             THEN \* .expect("allocation must be in the list")
                  /\ unwind("expect")
                  /\ UNCHANGED allocations
             ELSE \E index \in found :
                  /\ allocations' = remove(allocations, index)
                  /\ IF allocations[index].len = alloc.len
                     THEN UNCHANGED <<pc, panic, length>>
                     ELSE \* assert_eq!(elem.len, alloc.len())
                          unwind("assert_eq")
    /\ UNCHANGED <<size_of_T, storage_len, handles, connected, test_pc, test_vars>>

\* the handle is returned to the caller
return(handle) ==
    /\ handles' = handles (+) SetToBag({handle})
    /\ test_vars' = IF test_pc = 0 THEN <<>> ELSE Append(test_vars, handle)
    /\ pc' = "idle"
    /\ UNCHANGED panic

\* try_recv returned Err (channel empty): the loop ends and the region is placed
allocate_place ==
    /\ pc = "deallocate" /\ receiver = <<>>
    /\ IF available_right >= length
       THEN LET start == right_index IN
            IF index_in_bounds(start)
            THEN /\ allocations' = push_back(ArenaAllocation(start, length))
                 /\ return(HandleArena(start, length))
            ELSE /\ unwind("index")
                 /\ UNCHANGED <<handles, allocations, test_vars>>
       ELSE IF available_left >= length
       THEN LET start == left_index - length IN
            IF index_in_bounds(start)
            THEN /\ allocations' = push_front(ArenaAllocation(start, length))
                 /\ return(HandleArena(start, length))
            ELSE /\ unwind("index")
                 /\ UNCHANGED <<handles, allocations, test_vars>>
       ELSE /\ return(HandleBoxed(length))
            /\ UNCHANGED allocations
    /\ length' = 0
    /\ UNCHANGED <<size_of_T, storage_len, receiver, connected, test_pc>>

\* ---- impl Drop for Handle -------------------------------------------------
\* Sender::send on the unbounded channel: queued while the Receiver exists,
\* Err (ignored by `_ =`) once it is gone
send_always(ptr) == Append(receiver, ptr)
send(ptr) == IF connected THEN Append(receiver, ptr) ELSE receiver

\* the match of Handle::drop: only the Arena variant sends its ptr
drop_signal_any(h) == send(ArenaAllocation(h.start, h.len))
drop_signal(h) == IF is_boxed(h) THEN receiver
                  ELSE send(ArenaAllocation(h.start, h.len))

handle_drop(h) ==
    /\ BagIn(h, handles)
    /\ handles' = handles (-) SetToBag({h})
    /\ receiver' = drop_signal(h)
    /\ test_pc' = test_step_drop(h)
    /\ test_vars' = IF test_pc' = 0 THEN <<>> ELSE test_vars
    /\ UNCHANGED <<size_of_T, storage_len, allocations, pc, length, connected, panic>>

\* ---- impl Drop for RingArena --------------------------------------------
\* the owner drops the arena between calls, or the unwinding of a panic of
\* allocate() that nobody catches drops it; the Receiver goes with it
arena_drop ==
    /\ connected /\ pc = "idle"
    /\ connected' = FALSE
    /\ panic' = IF drop_panics THEN "drop" ELSE "none"
    /\ receiver' = <<>>
    /\ test_pc' = test_step("arena_drop", 0)
    /\ test_vars' = IF test_pc' = 0 THEN <<>> ELSE test_vars
    /\ UNCHANGED <<size_of_T, storage_len, allocations, handles, pc, length>>

Next ==
    \/ \E n \in 0..MaxLength \cup TestLengths : allocate_enter(n)
    \/ deallocate
    \/ allocate_place
    \/ \E h \in BagToSet(handles) : handle_drop(h)
    \/ arena_drop

Spec == Init /\ [][Next]_vars

TypeOK ==
    /\ size_of_T \in SizesOfT
    /\ storage_len \in 0..MaxCapacity \cup {TestCapacity}
    /\ pc \in {"idle", "deallocate"}
    /\ panic \in {"none", "offset_from_unsigned", "index", "expect", "assert_eq", "drop"}
    /\ connected \in BOOLEAN
    /\ BagCardinality(handles) <= MaxLive
    /\ test_pc \in 0..(Len(TestScript) + 1)

\* ---- vocabulary of the properties -----------------------------------------
Live == BagToSet(handles)

RingLive == {h \in Live : ~is_boxed(h)}

\* the slots [start, start+len) a ring-backed handle addresses
Region(h) == {k \in 0..storage_len : h.start <= k /\ k < h.start + h.len}

\* this step is the return of allocate() with a new handle
Returned == BagCardinality(handles') = BagCardinality(handles) + 1

\* the handle a return step adds
NewHandle == CHOOSE h \in BagToSet(handles') : CopiesIn(h, handles') > CopiesIn(h, handles)

\* this step is the drop of the arena
ArenaDropped == connected /\ ~connected'

\* this step is the drop of the handle h
HandleDropped(h) == BagIn(h, handles) /\ handles' = handles (-) SetToBag({h})

Max(S) == CHOOSE x \in S : \A y \in S : y <= x
Min(S) == CHOOSE x \in S : \A y \in S : x <= y

\* ---- C1 -------------------------------------------------------------------
\* C1: the regions of any two ring-backed handles that are alive at the same
\* time are disjoint.
C1_Disjoint ==
    \A h1 \in RingLive : \A h2 \in RingLive :
        (h1 # h2 \/ CopiesIn(h1, handles) > 1)
            => Region(h1) \cap Region(h2) = {}

\* ---- C2 -------------------------------------------------------------------
\* C2: allocate(length) always returns a handle; it never panics, for any
\* length, capacity and state (no call of the arena thread ends in a panic
\* other than that of RingArena::drop).
C2_AllocateNeverPanics == panic \in {"none", "drop"}

\* ---- C3 -------------------------------------------------------------------
\* C3: dropping the arena when every handle it issued has already been
\* dropped does not panic, also when the drop signals are still in the queue.
C3_CleanShutdown ==
    [][(ArenaDropped /\ pc = "idle" /\ handles = EmptyBag) => panic' = "none"]_vars

\* ---- C4 -------------------------------------------------------------------
\* C4 as stated: dropping the arena while a handle of any kind is still
\* alive ends in the panic of RingArena::drop.
C4_AnyHandleAborts ==
    [][(ArenaDropped /\ handles # EmptyBag) => panic' = "drop"]_vars

\* C4 amended: dropping the arena while a ring-backed handle is still alive
\* ends in the panic; heap-backed handles do not count: with no region
\* listed the drop raises no panic, whatever heap-backed handles are alive.
C4_RingHandleAborts ==
    [][ArenaDropped =>
          /\ RingLive # {} => panic' = "drop"
          /\ allocations = <<>> => panic' = "none"]_vars

\* the arena was dropped without panic while a heap-backed handle was alive
C4_Witness ==
    /\ ~connected /\ panic = "none"
    /\ \E h \in Live : is_boxed(h)

\* ---- C5 -------------------------------------------------------------------
\* C5: dropping the arena while a ring-backed handle is still alive always
\* ends in the panic of RingArena::drop.
C5_LiveRegionAborts ==
    [][(ArenaDropped /\ RingLive # {}) => panic' = "drop"]_vars

\* the arena was dropped between calls with a live ring-backed handle
C5_Witness ==
    /\ ~connected /\ panic = "drop" /\ pc = "idle"
    /\ RingLive # {}

\* ---- C6 -------------------------------------------------------------------
\* the rule in the claim's words, from the set of active regions
C6_available_right ==
    IF allocations = <<>> THEN storage_len
    ELSE storage_len - Max({end(allocations[k]) : k \in 1..Len(allocations)})

C6_available_left ==
    IF allocations = <<>> THEN storage_len
    ELSE Min({allocations[k].start : k \in 1..Len(allocations)})

\* C6: the handle allocate(length) returns is boxed exactly when, after the
\* drain, neither available_right nor available_left (full capacity when no
\* region is active) is at least length.
C6_FallbackCorrect ==
    [][Returned =>
          (is_boxed(NewHandle)
             <=> ~(C6_available_right >= length \/ C6_available_left >= length))]_vars

\* a request that fits the capacity fell back to the heap while regions were
\* active, and one was placed in the ring
C6_Witness ==
    \E h1 \in Live : \E h2 \in Live :
        /\ is_boxed(h1) /\ h1.len <= storage_len /\ h1.len > 0
        /\ ~is_boxed(h2) /\ h2.len > 0

\* ---- C7 -------------------------------------------------------------------
\* C7: the slice of a returned handle, ring-backed or heap-backed, has
\* exactly the requested length, and keeps it while the handle exists: the
\* handles that exist change only by a return and by a drop.
C7_SizeFidelity ==
    [][/\ Returned => as_slice_len(NewHandle) = length
       /\ \/ handles' = handles
          \/ Returned /\ handles' = handles (+) SetToBag({NewHandle})
          \/ \E h \in Live : HandleDropped(h)]_vars

\* handles of both kinds with different lengths exist
C7_Witness ==
    \E h1 \in Live : \E h2 \in Live :
        /\ is_boxed(h1) /\ ~is_boxed(h2)
        /\ as_slice_len(h1) > as_slice_len(h2) /\ as_slice_len(h2) > 0

\* ---- C8 -------------------------------------------------------------------
\* C8: on a fresh arena of capacity 4, allocate(1) gives region [0,1),
\* allocate(3) gives [1,4), allocate(2) is heap-backed and, after the first
\* two handles are dropped, allocate(4) gives [0,4).
C8_Scenario ==
    test_pc # 0 =>
        /\ Len(test_vars) >= 1 => test_vars[1] = HandleArena(0, 1)
        /\ Len(test_vars) >= 2 => test_vars[2] = HandleArena(1, 3)
        /\ Len(test_vars) >= 3 => is_boxed(test_vars[3])
        /\ Len(test_vars) >= 4 => test_vars[4] = HandleArena(0, 4)

\* ---- C9 -------------------------------------------------------------------
\* C9: dropping a handle never fails and never blocks: a ring-backed handle
\* enqueues exactly one signal with its region while the arena exists and
\* nothing once it is gone; a heap-backed handle touches nothing of the arena.
C9_HandleDropNeverFails ==
    /\ [](\A h \in Live : ENABLED handle_drop(h))
    /\ [][\A h \in Live : HandleDropped(h) =>
            /\ panic' = panic /\ pc' = pc
            /\ allocations' = allocations /\ connected' = connected
            /\ receiver' = IF ~is_boxed(h) /\ connected
                           THEN Append(receiver, ArenaAllocation(h.start, h.len))
                           ELSE receiver]_vars

\* signals of two dropped ring-backed handles are queued behind each other
\* while the arena thread is in its drain loop
C9_Witness ==
    /\ connected /\ Len(receiver) >= 2 /\ pc = "deallocate"
    /\ receiver[1] # receiver[2]

\* ---- C10 ------------------------------------------------------------------
\* C10: the drain never hits its assertions: every signal finds a region with
\* its start, and the region removed has the signal's length.
C10_DrainAssertionsHold == panic \notin {"expect", "assert_eq"}

\* ---- C11 ------------------------------------------------------------------
\* C11: when placement starts, available_right is the capacity minus the end
\* of the rightmost active region, or the full capacity when no region is
\* active, and available_left is the start of the leftmost active region, or
\* the full capacity when no region is active.
C11_SpaceComputation ==
    (pc = "deallocate" /\ receiver = <<>>) =>
        /\ available_right = C6_available_right
        /\ available_left = C6_available_left
\* ---- C12 ------------------------------------------------------------------
\* this step ends the allocate() call in progress with the channel empty
Placed == pc = "deallocate" /\ receiver = <<>> /\ pc' # "deallocate"

C12_right_end == Max({end(allocations[k]) : k \in 1..Len(allocations)})

C12_left_start == Min({allocations[k].start : k \in 1..Len(allocations)})

\* C12: with at least one active region, a request that fits right of the
\* rightmost region starts at its end and is appended; otherwise one that
\* fits left of the leftmost region ends at its start and is prepended;
\* otherwise the handle is heap-backed and the list is left alone.
C12_PlacementOrder ==
    [][(Placed /\ allocations # <<>>) =>
          IF storage_len - C12_right_end >= length
          THEN /\ Returned /\ NewHandle = HandleArena(C12_right_end, length)
               /\ allocations' = Append(allocations, ArenaAllocation(C12_right_end, length))
          ELSE IF C12_left_start >= length
          THEN /\ Returned /\ NewHandle = HandleArena(C12_left_start - length, length)
               /\ allocations' = <<ArenaAllocation(C12_left_start - length, length)>> \o allocations
          ELSE /\ Returned /\ is_boxed(NewHandle)
               /\ allocations' = allocations]_vars
\* ---- C13 ------------------------------------------------------------------
\* a sequence as the bag of its elements
SeqToBag(s) == [e \in {s[k] : k \in 1..Len(s)} |-> Cardinality({k \in 1..Len(s) : s[k] = e})]

\* the regions of the live ring-backed handles, as a bag
LiveRegions ==
    [r \in {ArenaAllocation(h.start, h.len) : h \in RingLive}
       |-> CopiesIn(HandleArena(r.start, r.len), handles)]

\* C13: when allocate() computes the available space, the region of every
\* ring-backed handle dropped before has been removed (the list holds the
\* regions of the live handles only); outside a call the list never
\* changes, and a handle drop never changes it.
C13_LazyCompleteReclamation ==
    /\ []((pc = "deallocate" /\ receiver = <<>>) => SeqToBag(allocations) = LiveRegions)
    /\ [][(pc = "idle" \/ \E h \in Live : HandleDropped(h))
             => allocations' = allocations]_vars

\* ---- C14 ------------------------------------------------------------------
\* how many ring-backed handles are alive
RingLiveCount == BagCardinality([h \in RingLive |-> CopiesIn(h, handles)])

\* C14: under every interleaving of drops with the steps of allocate(), a
\* dropped ring-backed handle accounts for exactly one removal, done by a
\* drain step: the list holds one entry per live ring-backed handle and one
\* per pending signal, a drop adds one signal, and the list shrinks only by
\* one entry in the step that receives one signal.
C14_OneRemovalPerDrop ==
    /\ [](connected => Len(allocations) = RingLiveCount + Len(receiver))
    /\ [][/\ \A h \in RingLive : (HandleDropped(h) /\ connected)
                => Len(receiver') = Len(receiver) + 1
          /\ Len(allocations') < Len(allocations)
                => /\ pc = "deallocate" /\ receiver # <<>>
                   /\ receiver' = Tail(receiver)
                   /\ Len(allocations') = Len(allocations) - 1]_vars

\* ---- C15 ------------------------------------------------------------------
\* C15: once every ring-backed handle issued so far has been dropped, the
\* allocate(n) that follows, 1 <= n <= capacity, returns a ring-backed
\* handle, whatever the order of the drops; allocate(capacity) covers
\* [0, capacity).
C15_FullRecovery ==
    [][(pc = "deallocate" /\ RingLive = {} /\ length >= 1 /\ length <= storage_len) =>
          /\ panic' = "none"
          /\ Returned =>
                /\ ~is_boxed(NewHandle)
                /\ length = storage_len => NewHandle = HandleArena(0, storage_len)]_vars
\* ---- C16 ------------------------------------------------------------------
\* C16: the active list is ordered by start offset in every reachable state.
C16_SortedByStart ==
    \A k \in 1..(Len(allocations) - 1) : allocations[k].start <= allocations[k + 1].start

\* a list built by a prepend and an append, after a removal at the back
C16_Witness ==
    /\ Len(allocations) = 3 /\ pc = "idle" /\ receiver = <<>>
    /\ allocations[1].start < allocations[2].start
    /\ allocations[2].start < allocations[3].start
    /\ end(allocations[3]) < storage_len

\* ---- C17 ------------------------------------------------------------------
RECURSIVE SumLen(_)
SumLen(s) == IF s = <<>> THEN 0 ELSE Head(s).len + SumLen(Tail(s))

\* C17: the lengths of all listed regions, live or dropped and not yet
\* drained, sum to at most the capacity, and each region lies in the buffer.
C17_WithinCapacity ==
    /\ SumLen(allocations) <= storage_len
    /\ \A k \in 1..Len(allocations) : end(allocations[k]) <= storage_len

\* the buffer is completely covered by three listed regions, one of them
\* already dropped
C17_Witness ==
    /\ Len(allocations) = 3 /\ SumLen(allocations) = storage_len
    /\ \A k \in 1..3 : allocations[k].len > 0
    /\ receiver # <<>>
\* ---- C18 ------------------------------------------------------------------
\* C18: a call that returns a heap-backed handle adds nothing to the active
\* list, and the drop of a heap-backed handle sends no signal and leaves the
\* list and the queue as they are.
C18_HeapBypassesRing ==
    [][/\ (Returned /\ is_boxed(NewHandle)) => allocations' = allocations
       /\ \A h \in Live : (HandleDropped(h) /\ is_boxed(h)) =>
             /\ receiver' = receiver
             /\ allocations' = allocations]_vars

\* a heap-backed handle whose length fits the capacity exists next to the
\* one listed region
C18_Witness ==
    /\ pc = "idle" /\ receiver = <<>> /\ connected
    /\ \E h \in Live : is_boxed(h) /\ h.len > 0 /\ h.len <= storage_len
    /\ Len(allocations) = 1 /\ BagCardinality(handles) = 2
\* ---- C19 ------------------------------------------------------------------
\* C19: while the arena exists the active list holds exactly one entry per
\* ring-backed handle that is alive or whose signal is still in the queue,
\* and nothing else; an entry leaves the list only for a handle that was
\* dropped.
C19_Bookkeeping ==
    connected => SeqToBag(allocations) = LiveRegions (+) SeqToBag(receiver)
====
